---- MODULE Spec2Model ----
(***************************************************************************)
(* A model of the kustomize-controller overlay generator                   *)
(* (controllers/kustomization_generator.go) and of the reconciliation      *)
(* loop that drives it.                                                    *)
(*                                                                         *)
(* A staging directory is a function from relative file paths (sequences   *)
(* of path components) to file contents.  Directories are implicit: a path *)
(* is a directory when some file lies below it.                            *)
(***************************************************************************)
EXTENDS Integers, Sequences, FiniteSets, TLC

VARIABLES
    kg,        \* kg[g]: the Kustomization object held by generator g
    fs,        \* fs[g]: the staging directory at DirPath(g)
    fs0,       \* fs0[g]: the staging directory as it was handed to WriteFile
    pc,        \* pc[g]: position of generator g inside WriteFile
    ret,       \* ret[g]: what WriteFile returned, [checksum, err]
    built,     \* built[g]: manifests of the build the checksum was taken from
    subst,     \* subst[g]: those manifests after the post-build actions
    obj,       \* obj[k]: the spec of reconcilable k
    source,    \* source[k]: the source snapshot of k, [ready, revision]
    status,    \* status[k]: the status of k
    phase,     \* phase[k]: the state of k in the reconciliation state machine
    attempt,   \* attempt[k]: the attempt in flight, [revision, token, docs]
    cluster,   \* the cluster: resource identity -> [labels]
    outcome,   \* outcome[k]: how the latest attempt of k ended
    appliedOk, \* appliedOk[k]: the revisions whose apply succeeded
    lastPruned \* the latest deletion a prune step made

genVars == <<kg, fs, fs0, pc, ret, built, subst>>

reconVars == <<obj, source, status, phase, attempt, cluster, outcome, appliedOk, lastPruned>>

vars == <<kg, fs, fs0, pc, ret, built, subst,
          obj, source, status, phase, attempt, cluster, outcome, appliedOk, lastPruned>>

-----------------------------------------------------------------------------
(* Generic helpers *)

Range(s) == {s[i] : i \in 1..Len(s)}

\* F applied to the value of e, e being evaluated once
Bind(e, F(_)) == CHOOSE r \in {F(x) : x \in {e}} : TRUE

EmptyMap == [k \in {} |-> ""]

IsPrefix(p, q) == Len(p) <= Len(q) /\ SubSeq(q, 1, Len(p)) = p

\* index of the first occurrence of old in s, 0 when there is none
IndexOf(s, old) ==
    LET hits == {i \in 1..(Len(s) - Len(old) + 1) : SubSeq(s, i, i + Len(old) - 1) = old}
    IN IF hits = {} THEN 0 ELSE CHOOSE i \in hits : \A j \in hits : i <= j

\* strings.Replace(s, old, new, 1) on paths, a path being a sequence of components
StringsReplaceFirst(s, old, new) ==
    LET i == IndexOf(s, old)
    IN IF i = 0 THEN s
       ELSE SubSeq(s, 1, i - 1) \o new \o SubSeq(s, i + Len(old), Len(s))

-----------------------------------------------------------------------------
(* Names *)

transformerFileName == "kustomization-gc-labels.yaml"

DefaultKustomizationFileName == "kustomization.yaml"

RecognizedKustomizationFileNames ==
    <<"kustomization.yaml", "kustomization.yml", "Kustomization">>

NameLabel == "kustomize.toolkit.fluxcd.io/name"

NamespaceLabel == "kustomize.toolkit.fluxcd.io/namespace"

ChecksumLabel == "kustomize.toolkit.fluxcd.io/checksum"

\* every file or directory name of the model, in byte-lexical order, the order
\* filepath.Walk visits the entries of one directory in
NameOrder ==
    <<"Kustomization", "broken.yaml", "configmap.yaml", "deploy.yml", "extra-labels.yaml", "inner",
      "kustomization-gc-labels.yaml", "kustomization.yaml", "kustomization.yml",
      "namespace.yaml", "notes.txt", "service-account.yaml", "sub">>

Rank(n) == CHOOSE i \in 1..Len(NameOrder) : NameOrder[i] = n

\* filepath.Ext
Ext(n) ==
    CASE n \in {"broken.yaml", "configmap.yaml", "extra-labels.yaml", "kustomization-gc-labels.yaml",
                "kustomization.yaml", "namespace.yaml", "service-account.yaml"} -> ".yaml"
      [] n \in {"deploy.yml", "kustomization.yml"} -> ".yml"
      [] n = "notes.txt" -> ".txt"
      [] OTHER -> ""

containsString(set, s) == s \in set

-----------------------------------------------------------------------------
(* The staging directory *)

IsFile(d, p) == p \in DOMAIN d

IsDir(d, p) == \E q \in DOMAIN d : Len(q) > Len(p) /\ IsPrefix(p, q)

Children(d, dir) ==
    {q[Len(dir) + 1] : q \in {r \in DOMAIN d : Len(r) > Len(dir) /\ IsPrefix(dir, r)}}

\* the names of S in the order of NameOrder
SortedNames(S) ==
    [i \in 1..Cardinality(S) |->
        CHOOSE n \in S : Cardinality({m \in S : Rank(m) < Rank(n)}) = i - 1]

\* fs.Exists(kpath) && !fs.IsDir(kpath) for one of the recognized names
HasKustomizationFile(d, dir) ==
    \E i \in 1..Len(RecognizedKustomizationFileNames) :
        IsFile(d, dir \o <<RecognizedKustomizationFileNames[i]>>)

WriteTo(d, p, content) == (p :> content) @@ d

-----------------------------------------------------------------------------
(* File contents *)

\* uf.SliceFromBytes: the bytes decode as Kubernetes documents
Decodes(c) == c.kind \in {"manifest", "labels", "kustomization"}

\* the Kubernetes documents a file read as a resource holds
DocsOf(c) ==
    CASE c.kind = "manifest" -> c.docs
      [] c.kind = "labels" ->
            <<[id |-> "LabelTransformer", rank |-> 9, namespaced |-> FALSE, ns |-> "",
               labels |-> EmptyMap, image |-> [name |-> "", tag |-> ""], body |-> <<>>]>>
      [] OTHER -> <<>>

-----------------------------------------------------------------------------
(* generateKustomization *)

\* every file and directory below the root of tree d
Entries(d) == UNION {{SubSeq(p, 1, k) : k \in 1..Len(p)} : p \in DOMAIN d}

\* filepath.Walk visits p before q: lexical order inside a directory, a
\* directory before what it holds
WalkBefore(p, q) ==
    \E i \in 1..Len(q) :
        /\ Len(p) >= i - 1
        /\ \A j \in 1..(i - 1) : p[j] = q[j]
        /\ \/ Len(p) = i - 1
           \/ Rank(p[i]) < Rank(q[i])

\* the entries of S in the order Walk visits them
WalkOrder(S) ==
    [i \in 1..Cardinality(S) |->
        CHOOSE p \in S : Cardinality({q \in S : WalkBefore(q, p)}) = i - 1]

\* the walk function returning nil where it returns filepath.SkipDir: the walk
\* descends into every directory
SkippedNever(d, p) == FALSE

\* the walk function returned filepath.SkipDir for a directory above p
Skipped(d, p) ==
    \E k \in 1..(Len(p) - 1) : HasKustomizationFile(d, SubSeq(p, 1, k))

\* the walk function without the decoding of the file's contents
scanVisitUndecoded(d, p) ==
    IF IsDir(d, p)
    THEN IF HasKustomizationFile(d, p) THEN "append" ELSE "descend"
    ELSE IF ~containsString({".yaml", ".yml"}, Ext(p[Len(p)])) THEN "ignore"
    ELSE "append"

\* what the walk function does with entry p of tree d
scanVisit(d, p) ==
    IF IsDir(d, p)
    THEN IF HasKustomizationFile(d, p) THEN "append" ELSE "descend"
    ELSE IF ~containsString({".yaml", ".yml"}, Ext(p[Len(p)])) THEN "ignore"
    ELSE IF ~Decodes(d[p]) THEN "fail"
    ELSE "append"

\* scan(base): [err, at, paths]; the walk stops at the first entry that fails;
\* the paths it returns are absolute, base followed by the path below it
scan(d, base) ==
    Bind({p \in Entries(d) : ~Skipped(d, p)}, LAMBDA visited :
      Bind({p \in visited : scanVisit(d, p) = "fail"}, LAMBDA failed :
        IF failed # {}
        THEN [err |-> TRUE, at |-> base \o WalkOrder(failed)[1], paths |-> <<>>]
        ELSE Bind(WalkOrder({p \in visited : scanVisit(d, p) = "append"}), LAMBDA kept :
               [err |-> FALSE, at |-> <<>>,
                paths |-> [i \in 1..Len(kept) |-> base \o kept[i]]])))

EmptyKustomization ==
    [kind |-> "kustomization", resources |-> <<>>, transformers |-> <<>>,
     images |-> <<>>, namespace |-> ""]

\* the resource list of the synthesized configuration
scanResources(files, abs) ==
    [i \in 1..Len(files) |-> StringsReplaceFirst(files[i], abs, <<".">>)]

\* generateKustomization(dirPath): [err, at, d], d the directory afterwards
generateKustomization(d, abs) ==
    IF HasKustomizationFile(d, <<>>)
    THEN [err |-> FALSE, at |-> <<>>, d |-> d]
    ELSE Bind(scan(d, abs), LAMBDA files :
           IF files.err
           THEN [err |-> TRUE, at |-> files.at, d |-> d]
           ELSE [err |-> FALSE, at |-> <<>>,
                 d |-> WriteTo(d, <<DefaultKustomizationFileName>>,
                               [EmptyKustomization EXCEPT
                                  !.resources = scanResources(files.paths, abs)])])

-----------------------------------------------------------------------------
(* The build engine (krusty), as buildKustomization uses it *)

BuildError == [err |-> TRUE, out |-> <<>>]

\* DoLegacyResourceSort: the output order is fixed by the kind, not by the
\* order of declaration
SortDocs(S) ==
    [i \in 1..Cardinality(S) |->
        CHOOSE r \in S : Cardinality({o \in S : o.rank < r.rank}) = i - 1]

\* the builtin LabelTransformer at metadata/labels, created when absent
ApplyLabels(doc, labels) == [doc EXCEPT !.labels = labels @@ @]

\* the builtin image transformer: a matching image takes the new name and tag
ApplyImage(doc, img) ==
    IF doc.image.name # "" /\ doc.image.name = img.name
    THEN [doc EXCEPT !.image = [name |-> IF img.newName = "" THEN @.name ELSE img.newName,
                                tag |-> IF img.newTag = "" THEN @.tag ELSE img.newTag]]
    ELSE doc

RECURSIVE FoldDoc(_, _, _)
FoldDoc(Op(_, _), doc, s) ==
    IF s = <<>> THEN doc ELSE FoldDoc(Op, Op(doc, Head(s)), Tail(s))

ApplyNamespace(doc, ns) ==
    IF ns # "" /\ doc.namespaced THEN [doc EXCEPT !.ns = ns] ELSE doc

\* a resource entry "./x/y" of the configuration in dir, as a path of the tree
ResolveEntry(dir, e) == dir \o (IF e # <<>> /\ Head(e) = "." THEN Tail(e) ELSE e)

Failed == [err |-> TRUE, docs |-> {}]

RECURSIVE BuildDir(_, _)

\* the documents of one entry of a resource list
LoadEntry(d, dir, e) ==
    Bind(ResolveEntry(dir, e), LAMBDA p :
      IF IsFile(d, p)
      THEN IF d[p].kind = "manifest" \/ d[p].kind = "labels"
           THEN [err |-> FALSE, docs |-> Range(DocsOf(d[p]))]
           ELSE Failed
      ELSE IF IsDir(d, p) /\ p # dir THEN BuildDir(d, p)
      ELSE Failed)

\* the transformers of configuration kus in dir can be loaded
TransformersLoad(d, dir, kus) ==
    \A i \in 1..Len(kus.transformers) :
        /\ IsFile(d, dir \o <<kus.transformers[i]>>)
        /\ d[dir \o <<kus.transformers[i]>>].kind = "labels"

\* namespace, images and label transformers of configuration kus, applied to doc
Transform(d, dir, kus, doc) ==
    FoldDoc(ApplyLabels,
            FoldDoc(ApplyImage, ApplyNamespace(doc, kus.namespace), kus.images),
            [i \in 1..Len(kus.transformers) |-> d[dir \o <<kus.transformers[i]>>].labels])

\* krusty.Run on directory dir of tree d: [err, docs], docs a set of documents
BuildDir(d, dir) ==
    Bind({i \in 1..Len(RecognizedKustomizationFileNames) :
             IsFile(d, dir \o <<RecognizedKustomizationFileNames[i]>>)}, LAMBDA names :
      IF Cardinality(names) # 1 THEN Failed
      ELSE
        Bind(d[dir \o <<RecognizedKustomizationFileNames[CHOOSE i \in names : TRUE]>>],
             LAMBDA kus :
          Bind({[i |-> i, r |-> LoadEntry(d, dir, kus.resources[i])] :
                   i \in 1..Len(kus.resources)}, LAMBDA loaded :
            Bind(UNION {x.r.docs : x \in loaded}, LAMBDA all :
              IF \/ \E x \in loaded : x.r.err
                 \/ \E x, y \in loaded :
                       x.i # y.i /\ \E u \in x.r.docs, v \in y.r.docs : u.id = v.id
                 \/ \E u, v \in all : u # v /\ u.id = v.id
                 \/ ~TransformersLoad(d, dir, kus)
              THEN Failed
              ELSE [err |-> FALSE,
                    docs |-> {Transform(d, dir, kus, doc) : doc \in all}]))))

\* buildKustomization(fs, dirPath) followed by m.AsYaml(): the manifests, one
\* document per resource, in the legacy order
buildKustomization(d) ==
    Bind(BuildDir(d, <<>>), LAMBDA b :
      IF b.err THEN BuildError ELSE [err |-> FALSE, out |-> SortDocs(b.docs)])

-----------------------------------------------------------------------------
(* runPostBuildActions *)

\* a piece of manifest text: literal text, ${name}, ${name:=default}, or an
\* expansion envsubst cannot parse
Txt(x) == [t |-> "txt", name |-> "", arg |-> x]

Var(n) == [t |-> "var", name |-> n, arg |-> ""]

Def(n, x) == [t |-> "def", name |-> n, arg |-> x]

Bad == [t |-> "bad", name |-> "", arg |-> ""]

\* Mapping with the lookup lost: every name reads as unset
MappingUnset(env, s) == ""

\* func(s string) string { return vars[s] }
Mapping(env, s) == IF s \in DOMAIN env THEN env[s] ELSE ""

\* envsubst's substitution function for ${name} (no argument) and
\* ${name:=default} (one argument)
toDefault(s, args) == IF s = "" /\ Len(args) = 1 THEN args[1] ELSE s

EvalSegment(seg, env) ==
    CASE seg.t = "var" -> Txt(toDefault(Mapping(env, seg.name), <<>>))
      [] seg.t = "def" -> Txt(toDefault(Mapping(env, seg.name), <<seg.arg>>))
      [] OTHER -> seg

\* envsubst.Eval on the whole manifest text, document bodies one after another
Eval(manifests, env) ==
    IF \E i \in 1..Len(manifests) : \E j \in 1..Len(manifests[i].body) :
           manifests[i].body[j].t = "bad"
    THEN [err |-> TRUE, out |-> <<>>]
    ELSE [err |-> FALSE,
          out |-> [i \in 1..Len(manifests) |->
                     [manifests[i] EXCEPT
                        !.body = [j \in 1..Len(manifests[i].body) |->
                                    EvalSegment(manifests[i].body[j], env)]]]]

NoPostBuild == [set |-> FALSE, substitute |-> EmptyMap]

runPostBuildActions(kustomization, manifests) ==
    IF ~kustomization.postBuild.set
    THEN [err |-> FALSE, out |-> manifests]
    ELSE IF DOMAIN kustomization.postBuild.substitute # {}
         THEN Eval(manifests, kustomization.postBuild.substitute)
         ELSE [err |-> FALSE, out |-> manifests]

-----------------------------------------------------------------------------
(* checksum and generateLabelTransformer *)

NoChecksum == <<>>

\* fmt.Sprintf("%x", sha1.Sum(resources)): a collision-free digest of the text
Sha1Hex(resources) == <<"sha1", resources>>

\* checksumBuildDir with the label transformer written and listed before the
\* token build, under the owner's selector labels
checksumBuildDirSelector(d, kustomization, abs) ==
    Bind(generateKustomization(d, abs), LAMBDA gen :
      IF gen.err \/ ~IsFile(gen.d, <<DefaultKustomizationFileName>>) THEN gen
      ELSE [gen EXCEPT !.d =
              WriteTo(WriteTo(gen.d, <<transformerFileName>>,
                              [kind |-> "labels", name |-> kustomization.name,
                               labels |-> (NameLabel :> kustomization.name)]),
                      <<DefaultKustomizationFileName>>,
                      [gen.d[<<DefaultKustomizationFileName>>] EXCEPT
                         !.transformers = <<transformerFileName>>])])

\* checksumBuildDir with the label transformer written and listed before the
\* token build, with an empty token
checksumBuildDirToken(d, kustomization, abs) ==
    Bind(generateKustomization(d, abs), LAMBDA gen :
      IF gen.err \/ ~IsFile(gen.d, <<DefaultKustomizationFileName>>) THEN gen
      ELSE [gen EXCEPT !.d =
              WriteTo(WriteTo(gen.d, <<transformerFileName>>,
                              [kind |-> "labels", name |-> kustomization.name,
                               labels |-> (ChecksumLabel :> NoChecksum)]),
                      <<DefaultKustomizationFileName>>,
                      [gen.d[<<DefaultKustomizationFileName>>] EXCEPT
                         !.transformers = <<transformerFileName>>])])

\* the directory the checksum build reads
checksumBuildDir(d, kustomization, abs) == generateKustomization(d, abs)

checksumFailed(e, gen) ==
    [err |-> e, at |-> gen.at, checksum |-> NoChecksum, d |-> gen.d,
     built |-> <<>>, subst |-> <<>>]

\* checksum(dirPath): [err, at, checksum, d, built, subst]
checksum(d, kustomization, abs) ==
    Bind(checksumBuildDir(d, kustomization, abs), LAMBDA gen :
      IF gen.err THEN checksumFailed("kustomize create failed", gen)
      ELSE Bind(buildKustomization(gen.d), LAMBDA m :
        IF m.err THEN checksumFailed("kustomize build failed", gen)
        ELSE Bind(runPostBuildActions(kustomization, m.out), LAMBDA resources :
          IF resources.err THEN checksumFailed("post-build actions failed", gen)
          ELSE [err |-> "", at |-> <<>>, checksum |-> Sha1Hex(resources.out),
                d |-> gen.d, built |-> m.out, subst |-> resources.out])))

selectorLabels(name, namespace) ==
    (NameLabel :> name) @@ (NamespaceLabel :> namespace)

\* transformerLabels with the Prune test lost: the token label always
transformerLabelsAlways(kustomization, sum) ==
    (NameLabel :> kustomization.name) @@ (NamespaceLabel :> kustomization.namespace)
        @@ (ChecksumLabel :> sum)

gcLabels(name, namespace, sum) ==
    (NameLabel :> name) @@ (NamespaceLabel :> namespace) @@ (ChecksumLabel :> sum)

\* the labels of the generated transformer
transformerLabels(kustomization, sum) ==
    IF kustomization.prune
    THEN gcLabels(kustomization.name, kustomization.namespace, sum)
    ELSE selectorLabels(kustomization.name, kustomization.namespace)

generateLabelTransformer(d, kustomization, sum) ==
    WriteTo(d, <<transformerFileName>>,
            [kind |-> "labels", name |-> kustomization.name,
             labels |-> transformerLabels(kustomization, sum)])

-----------------------------------------------------------------------------
(* WriteFile: the update of the build configuration *)

\* addTransformer without the test for an entry already there
addTransformerAlways(transformers) == Append(transformers, transformerFileName)

\* lines 81-94: the transformer list with the generated transformer in it
addTransformer(transformers) ==
    IF Len(transformers) = 0 THEN <<transformerFileName>>
    ELSE IF \E i \in 1..Len(transformers) : transformers[i] = transformerFileName
         THEN transformers
         ELSE Append(transformers, transformerFileName)

\* checkKustomizeImageExists comparing from the second entry on
checkKustomizeImageExistsSkipFirst(images, imageName) ==
    LET hits == {i \in 2..Len(images) : images[i].name = imageName}
    IN IF hits = {} THEN [exists |-> FALSE, index |-> 0]
       ELSE [exists |-> TRUE, index |-> CHOOSE i \in hits : \A j \in hits : i <= j]

\* checkKustomizeImageExists: [exists, index]; the index is that of the first match
checkKustomizeImageExists(images, imageName) ==
    LET hits == {i \in 1..Len(images) : images[i].name = imageName}
    IN IF hits = {} THEN [exists |-> FALSE, index |-> 0]
       ELSE [exists |-> TRUE, index |-> CHOOSE i \in hits : \A j \in hits : i <= j]

\* the body of the loop over Spec.Images, for one override
overrideImage(images, image) ==
    LET newImage == [name |-> image.name, newName |-> image.newName,
                     newTag |-> image.newTag, digest |-> ""]
        found == checkKustomizeImageExists(images, image.name)
    IN IF found.exists THEN [images EXCEPT ![found.index] = newImage]
       ELSE Append(images, newImage)

RECURSIVE overrideImages(_, _)
overrideImages(images, overrides) ==
    IF overrides = <<>> THEN images
    ELSE overrideImages(overrideImage(images, Head(overrides)), Tail(overrides))

\* the configuration WriteFile writes back
updateKustomization(kus, kustomization) ==
    [kus EXCEPT
       !.transformers = addTransformer(@),
       !.namespace = IF kustomization.targetNamespace # ""
                     THEN kustomization.targetNamespace ELSE @,
       !.images = overrideImages(@, kustomization.images)]

\* WriteFile(dirPath) as a whole: [err, checksum, d]
WriteFile(d, kustomization, abs) ==
    Bind(checksum(d, kustomization, abs), LAMBDA c :
      IF c.err # "" THEN [err |-> c.err, checksum |-> NoChecksum, d |-> c.d]
      ELSE Bind(generateLabelTransformer(c.d, kustomization, c.checksum), LAMBDA d2 :
        IF ~IsFile(d2, <<DefaultKustomizationFileName>>)
        THEN [err |-> "read failed", checksum |-> NoChecksum, d |-> d2]
        ELSE [err |-> "", checksum |-> c.checksum,
              d |-> WriteTo(d2, <<DefaultKustomizationFileName>>,
                            updateKustomization(d2[<<DefaultKustomizationFileName>>],
                                                kustomization))]))

-----------------------------------------------------------------------------
(* The generators: WriteFile, step by step *)

Gens == {"g1", "g2"}

\* the dirPath generator g is given, an absolute path
DirPath(g) == <<"tmp", g>>

NoResult == [checksum |-> NoChecksum, err |-> "", at |-> <<>>]

\* lines 56-59: checksum, err := kg.checksum(dirPath)
WriteFileChecksum(g) ==
    /\ pc[g] = "start"
    /\ \E c \in {checksum(fs[g], kg[g], DirPath(g))} :
          /\ fs' = [fs EXCEPT ![g] = c.d]
          /\ pc' = [pc EXCEPT ![g] = IF c.err = "" THEN "labels" ELSE "err"]
          /\ ret' = [ret EXCEPT ![g] = [checksum |-> c.checksum, err |-> c.err, at |-> c.at]]
          /\ built' = [built EXCEPT ![g] = c.built]
          /\ subst' = [subst EXCEPT ![g] = c.subst]
    /\ UNCHANGED <<kg, fs0>>
    /\ UNCHANGED reconVars

\* lines 61-63: kg.generateLabelTransformer(checksum, dirPath)
WriteFileLabels(g) ==
    /\ pc[g] = "labels"
    /\ fs' = [fs EXCEPT ![g] = generateLabelTransformer(@, kg[g], ret[g].checksum)]
    /\ pc' = [pc EXCEPT ![g] = "update"]
    /\ UNCHANGED <<kg, fs0, ret, built, subst>>
    /\ UNCHANGED reconVars

\* lines 65-118: read kustomization.yaml, update it, write it back
WriteFileUpdate(g) ==
    /\ pc[g] = "update"
    /\ LET kfile == <<DefaultKustomizationFileName>>
       IN IF ~IsFile(fs[g], kfile)
          THEN /\ pc' = [pc EXCEPT ![g] = "err"]
               /\ ret' = [ret EXCEPT ![g] = [checksum |-> NoChecksum,
                                              err |-> "read failed", at |-> kfile]]
               /\ fs' = fs
          ELSE /\ pc' = [pc EXCEPT ![g] = "done"]
               /\ ret' = ret
               /\ fs' = [fs EXCEPT ![g] =
                           WriteTo(@, kfile, updateKustomization(@[kfile], kg[g]))]
    /\ UNCHANGED <<kg, fs0, built, subst>>
    /\ UNCHANGED reconVars

GenNext == \E g \in Gens : \/ WriteFileChecksum(g)
                           \/ WriteFileLabels(g)
                           \/ WriteFileUpdate(g)

-----------------------------------------------------------------------------
(* Staging directories and objects the generators start from *)

NoImage == [name |-> "", tag |-> ""]

NamespaceDoc ==
    [id |-> "Namespace/test", rank |-> 1, namespaced |-> FALSE, ns |-> "",
     labels |-> EmptyMap, image |-> NoImage, body |-> <<>>]

ServiceAccountDoc(body) ==
    [id |-> "ServiceAccount/test", rank |-> 2, namespaced |-> TRUE, ns |-> "test",
     labels |-> EmptyMap, image |-> NoImage, body |-> body]

ConfigMapDoc ==
    [id |-> "ConfigMap/settings", rank |-> 3, namespaced |-> TRUE, ns |-> "test",
     labels |-> EmptyMap, image |-> NoImage, body |-> <<>>]

DeploymentDoc ==
    [id |-> "Deployment/podinfo", rank |-> 4, namespaced |-> TRUE, ns |-> "test",
     labels |-> EmptyMap, image |-> [name |-> "podinfo", tag |-> "4.0.0"], body |-> <<>>]

Manifest(docs) == [kind |-> "manifest", docs |-> docs]

Other == [kind |-> "other"]

LabelsFile(labels) == [kind |-> "labels", name |-> "labels", labels |-> labels]

\* the body of the service account of the controller test: ${env:=dev}, ${region}
TestBody == <<Def("env", "dev"), Var("region")>>

\* the manifests at the root of the snapshot
RootManifests(body) ==
    { (<<"namespace.yaml">> :> Manifest(<<NamespaceDoc>>))
        @@ (<<"notes.txt">> :> Other),
      (<<"namespace.yaml">> :> Manifest(<<NamespaceDoc>>))
        @@ (<<"service-account.yaml">> :> Manifest(<<ServiceAccountDoc(body)>>))
        @@ (<<"notes.txt">> :> Other) }

\* what else the snapshot holds: nothing, a file that does not decode, a
\* sub-directory with its own build configuration, or a plain sub-directory
\* with a configured directory inside
Extras ==
    { [p \in {} |-> Other],
      (<<"broken.yaml">> :> Other),
      (<<"sub", "kustomization.yml">> :>
           [EmptyKustomization EXCEPT !.resources = <<<<"deploy.yml">>>>])
        @@ (<<"sub", "deploy.yml">> :> Manifest(<<DeploymentDoc>>))
        @@ (<<"sub", "inner", "broken.yaml">> :> Other),
      (<<"sub", "deploy.yml">> :> Manifest(<<DeploymentDoc>>))
        @@ (<<"sub", "notes.txt">> :> Other)
        @@ (<<"sub", "inner", "Kustomization">> :>
               [EmptyKustomization EXCEPT !.resources = <<<<".", "configmap.yaml">>>>])
        @@ (<<"sub", "inner", "configmap.yaml">> :> Manifest(<<ConfigMapDoc>>)) }

\* a token an earlier run generated
StaleChecksum == Sha1Hex(<<>>)

\* a kustomization-gc-labels.yaml the snapshot already holds: none, one
\* generated without pruning, one generated with pruning
StaleTransformers ==
    { [p \in {} |-> Other],
      (<<transformerFileName>> :> LabelsFile(selectorLabels("old", "flux-system"))),
      (<<transformerFileName>> :>
           LabelsFile(gcLabels("old", "flux-system", StaleChecksum))) }

ExtraLabels == ("team" :> "platform")

\* the manifests of directory d a hand-written root configuration lists
ListedResources(d) ==
    LET files == {p \in DOMAIN d : Len(p) = 1 /\ d[p].kind = "manifest"}
    IN [i \in 1..Cardinality(files) |-> <<".", SortedNames({p[1] : p \in files})[i]>>]

\* the root build configurations a snapshot may come with: none, or one under a
\* recognized name with a transformer list, an image list and a namespace
RootConfigs(d, TransformerLists, ImageLists) ==
    { [p \in {} |-> Other] } \cup
    { (<<RecognizedKustomizationFileNames[n]>> :>
           [kind |-> "kustomization", resources |-> ListedResources(d),
            transformers |-> t, images |-> i, namespace |-> "dev"])
        @@ (IF \E k \in 1..Len(t) : t[k] = "extra-labels.yaml"
            THEN (<<"extra-labels.yaml">> :> LabelsFile(ExtraLabels))
            ELSE [p \in {} |-> Other]) :
        n \in 1..Len(RecognizedKustomizationFileNames),
        t \in TransformerLists, i \in ImageLists }

StagingDirs(Bodies, ExtraSet, StaleSet, TransformerLists, ImageLists) ==
    UNION { { m @@ x @@ s @@ c : c \in RootConfigs(m, TransformerLists, ImageLists) } :
            m \in UNION {RootManifests(b) : b \in Bodies},
            x \in ExtraSet, s \in StaleSet }

Kustomization(name, prune, targetNamespace, images, postBuild) ==
    [name |-> name, namespace |-> "flux-system", prune |-> prune,
     targetNamespace |-> targetNamespace, images |-> images, postBuild |-> postBuild]

\* no reconcilable exists
ReconIdle ==
    /\ obj = <<>> /\ source = <<>> /\ status = <<>> /\ phase = <<>> /\ attempt = <<>>
    /\ cluster = <<>> /\ outcome = <<>> /\ appliedOk = <<>> /\ lastPruned = <<>>

\* two generators are handed the same content and the same spec; the objects
\* may differ in their name
GenInit(Dirs, Prunes, TargetNamespaces, Overrides, PostBuilds) ==
    \E d \in Dirs, p \in Prunes, tn \in TargetNamespaces, o \in Overrides,
       pb \in PostBuilds, n2 \in {"app", "web"} :
        /\ kg = [g \in Gens |->
                   Kustomization(IF g = "g1" THEN "app" ELSE n2, p, tn, o, pb)]
        /\ fs = [g \in Gens |-> d]
        /\ fs0 = fs
        /\ pc = [g \in Gens |-> "start"]
        /\ ret = [g \in Gens |-> NoResult]
        /\ built = [g \in Gens |-> <<>>]
        /\ subst = [g \in Gens |-> <<>>]
        /\ ReconIdle

PodinfoImage == [name |-> "podinfo", newName |-> "", newTag |-> "3.0.0", digest |-> "sha256:aa"]

PodinfoOverride == [name |-> "podinfo", newName |-> "ghcr.io/podinfo", newTag |-> "5.0.0"]

TestSubstitute == [set |-> TRUE, substitute |-> ("region" :> "eu-central-1")]

TransformerLists ==
    {<<>>, <<transformerFileName>>, <<"extra-labels.yaml">>,
     <<"extra-labels.yaml", transformerFileName>>}

\* Spec: every kind of snapshot, with the image list, the overrides and the
\* substitution of the tests
Init ==
    GenInit(StagingDirs({TestBody}, Extras, StaleTransformers, TransformerLists,
                        {<<PodinfoImage>>}),
            BOOLEAN, {"", "prod"}, {<<>>, <<PodinfoOverride>>},
            {NoPostBuild, TestSubstitute})

Next == GenNext

Spec == Init /\ [][Next]_vars

-----------------------------------------------------------------------------
(* SpecImages: image lists and image overrides of every shape *)

MaxImages == 2

MaxOverrides == 2

SeqsUpTo(S, n) == UNION {[1..k -> S] : k \in 0..n}

ImageEntries ==
    {PodinfoImage,
     [name |-> "redis", newName |-> "", newTag |-> "6.0.0", digest |-> ""]}

ImageOverrides ==
    {PodinfoOverride,
     [name |-> "podinfo", newName |-> "", newTag |-> "6.0.0"],
     [name |-> "nginx", newName |-> "", newTag |-> "1.19.0"]}

PlainExtras == {[p \in {} |-> Other]}

InitImages ==
    GenInit(StagingDirs({TestBody}, PlainExtras, PlainExtras, {<<>>},
                        SeqsUpTo(ImageEntries, MaxImages)),
            {TRUE}, {""}, SeqsUpTo(ImageOverrides, MaxOverrides), {NoPostBuild})

SpecImages == InitImages /\ [][Next]_vars

-----------------------------------------------------------------------------
(* SpecSubst: manifest texts and variable maps of every shape *)

MaxBody == 2

Segments ==
    {Txt("x"), Var("region"), Var("env"), Def("env", "dev"), Def("region", "us"), Bad}

PostBuilds ==
    {NoPostBuild,
     [set |-> TRUE, substitute |-> EmptyMap],
     TestSubstitute,
     [set |-> TRUE, substitute |-> ("region" :> "eu-central-1") @@ ("env" :> "prod")],
     [set |-> TRUE, substitute |-> ("env" :> "")]}

InitSubst ==
    GenInit(StagingDirs(SeqsUpTo(Segments, MaxBody) \cup {TestBody}, PlainExtras,
                        PlainExtras, {<<>>}, {<<>>}),
            {TRUE}, {""}, {<<>>}, PostBuilds)

SpecSubst == InitSubst /\ [][Next]_vars

-----------------------------------------------------------------------------
(* SpecScan: staging trees of every shape, for the scan of generateKustomization *)

\* the files a snapshot may hold, each with its content: manifests, files that
\* do not decode and files of another extension at the root, in a
\* sub-directory and in a directory inside it; build configurations at each
\* of the three levels; a label transformer an earlier run left at the root
ScanFiles ==
    (<<"namespace.yaml">> :> Manifest(<<NamespaceDoc>>))
      @@ (<<"notes.txt">> :> Other)
      @@ (<<"broken.yaml">> :> Other)
      @@ (<<transformerFileName>> :> LabelsFile(selectorLabels("old", "flux-system")))
      @@ (<<"kustomization.yaml">> :>
             [EmptyKustomization EXCEPT !.resources = <<<<".", "namespace.yaml">>>>])
      @@ (<<"sub", "kustomization.yml">> :>
             [EmptyKustomization EXCEPT !.resources = <<<<"deploy.yml">>>>])
      @@ (<<"sub", "deploy.yml">> :> Manifest(<<DeploymentDoc>>))
      @@ (<<"sub", "notes.txt">> :> Other)
      @@ (<<"sub", "broken.yaml">> :> Other)
      @@ (<<"sub", "inner", "Kustomization">> :>
             [EmptyKustomization EXCEPT !.resources = <<<<".", "configmap.yaml">>>>])
      @@ (<<"sub", "inner", "configmap.yaml">> :> Manifest(<<ConfigMapDoc>>))
      @@ (<<"sub", "inner", "broken.yaml">> :> Other)

\* every snapshot made of some of these files
ScanDirs == {[p \in S |-> ScanFiles[p]] : S \in SUBSET DOMAIN ScanFiles}

InitScan == GenInit(ScanDirs, {TRUE}, {""}, {<<>>}, {NoPostBuild})

SpecScan == InitScan /\ [][Next]_vars

-----------------------------------------------------------------------------
(* The reconciliation loop: one attempt per reconcilable at a time, many    *)
(* reconcilables side by side, one cluster                                  *)

MaxRev == 2

Recs == {"common", "backend"}

\* the staging directory a reconciliation attempt builds in
StagingPath(k) == <<"tmp", k>>

NoFault == [kind |-> "none", at |-> 0]

\* what goes wrong with revision r of a reconcilable of fault profile f
FaultAt(f, r) == IF r = f.at THEN f.kind ELSE "none"

\* the content of the source snapshot of k at revision r: the service account of
\* common is only in its odd revisions, backend declares it from revision 2 on
Snapshot(k, r, fault) ==
    (IF k = "common"
     THEN (<<"namespace.yaml">> :> Manifest(<<NamespaceDoc>>))
            @@ (IF r % 2 = 1
                THEN (<<"service-account.yaml">> :> Manifest(<<ServiceAccountDoc(TestBody)>>))
                ELSE [p \in {} |-> Other])
     ELSE (<<"deploy.yml">> :> Manifest(<<DeploymentDoc>>))
            @@ (IF r >= 2
                THEN (<<"service-account.yaml">> :> Manifest(<<ServiceAccountDoc(<<>>)>>))
                ELSE [p \in {} |-> Other]))
    @@ (IF fault = "build" THEN (<<"broken.yaml">> :> Other) ELSE [p \in {} |-> Other])

NoAttempt == [revision |-> 0, token |-> NoChecksum, docs |-> <<>>]

NoDeletion == [by |-> "", id |-> "", labels |-> EmptyMap, token |-> NoChecksum]

InitialStatus ==
    [ready |-> "Unknown", reason |-> "", lastAttemptedRevision |-> 0,
     lastAppliedRevision |-> 0]

\* a failed attempt that the next interval retries
Retried(st) ==
    st.ready = "False" /\ st.reason \in {"BuildFailed", "ValidationFailed", "ApplyFailed"}

\* step 1: the attempt is skipped
Skipped1(k) ==
    \/ obj[k].suspend
    \/ ~source[k].ready
    \/ source[k].revision = status[k].lastAttemptedRevision /\ ~Retried(status[k])

\* the Dependency Gate letting through a dependency that has not failed
DependenciesNotFailed(k) == \A dep \in obj[k].dependsOn : status[dep].ready # "False"

\* the Dependency Gate
DependenciesReady(k) == \A dep \in obj[k].dependsOn : status[dep].ready = "True"

\* the source provider publishes the next revision
SourcePublish(k) ==
    /\ source[k].revision < MaxRev
    /\ source' = [source EXCEPT ![k] = [ready |-> TRUE, revision |-> @.revision + 1]]
    /\ UNCHANGED <<obj, status, phase, attempt, cluster, outcome, appliedOk, lastPruned>>
    /\ UNCHANGED genVars

\* step 2, a dependency is not Ready: requeue, nothing recorded in the status
DependencyRequeue(k) ==
    /\ phase[k] = "Pending"
    /\ ~Skipped1(k)
    /\ ~DependenciesReady(k)
    /\ outcome' = [outcome EXCEPT ![k] = "DependencyNotReady"]
    /\ UNCHANGED <<obj, source, status, phase, attempt, cluster, appliedOk, lastPruned>>
    /\ UNCHANGED genVars

\* steps 1 and 2 passed: the attempt starts on the current revision
ReconcileBegin(k) ==
    /\ phase[k] = "Pending"
    /\ ~Skipped1(k)
    /\ DependenciesReady(k)
    /\ phase' = [phase EXCEPT ![k] = "Building"]
    /\ attempt' = [attempt EXCEPT ![k] = [NoAttempt EXCEPT !.revision = source[k].revision]]
    /\ status' = [status EXCEPT ![k].lastAttemptedRevision = source[k].revision]
    /\ outcome' = [outcome EXCEPT ![k] = "InProgress"]
    /\ UNCHANGED <<obj, source, cluster, appliedOk, lastPruned>>
    /\ UNCHANGED genVars

\* Failure recording the attempted revision as applied
FailureRecordsRevision(k, reason) ==
    /\ status' = [status EXCEPT ![k].ready = "False", ![k].reason = reason,
                                ![k].lastAppliedRevision = attempt[k].revision]
    /\ phase' = [phase EXCEPT ![k] = "Pending"]
    /\ outcome' = [outcome EXCEPT ![k] = reason]

\* a step's fatal error: Ready=False with a reason, the applied revision kept
Failure(k, reason) ==
    /\ status' = [status EXCEPT ![k].ready = "False", ![k].reason = reason]
    /\ phase' = [phase EXCEPT ![k] = "Pending"]
    /\ outcome' = [outcome EXCEPT ![k] = reason]

\* step 3: [err, token, docs], the token and the final resource set
Staged(k, r) ==
    Bind(WriteFile(Snapshot(k, r, FaultAt(obj[k].fault, r)), obj[k], StagingPath(k)),
         LAMBDA w :
      IF w.err # "" THEN [err |-> TRUE, token |-> NoChecksum, docs |-> <<>>]
      ELSE Bind(buildKustomization(w.d), LAMBDA m :
        IF m.err THEN [err |-> TRUE, token |-> NoChecksum, docs |-> <<>>]
        ELSE Bind(runPostBuildActions(obj[k], m.out), LAMBDA resources :
          [err |-> resources.err, token |-> w.checksum, docs |-> resources.out])))

\* step 3: stage, build, compute the token, substitute
Build(k) ==
    /\ phase[k] = "Building"
    /\ \E b \in {Staged(k, attempt[k].revision)} :
          IF b.err
          THEN Failure(k, "BuildFailed") /\ UNCHANGED attempt
          ELSE /\ attempt' = [attempt EXCEPT ![k].token = b.token, ![k].docs = b.docs]
               /\ phase' = [phase EXCEPT ![k] = "Validating"]
               /\ UNCHANGED <<status, outcome>>
    /\ UNCHANGED <<obj, source, cluster, appliedOk, lastPruned>>
    /\ UNCHANGED genVars

\* step 4
Validate(k) ==
    /\ phase[k] = "Validating"
    /\ IF FaultAt(obj[k].fault, attempt[k].revision) = "validate"
       THEN Failure(k, "ValidationFailed")
       ELSE /\ phase' = [phase EXCEPT ![k] = "Applying"]
            /\ UNCHANGED <<status, outcome>>
    /\ UNCHANGED <<obj, source, attempt, cluster, appliedOk, lastPruned>>
    /\ UNCHANGED genVars

\* the cluster after the create-or-merge of docs
Applied(c, docs) ==
    LET ids == {docs[i].id : i \in 1..Len(docs)}
        labelsOf(id) == (CHOOSE doc \in Range(docs) : doc.id = id).labels
    IN [id \in DOMAIN c \cup ids |->
          IF id \notin ids THEN c[id]
          ELSE IF id \in DOMAIN c THEN [labels |-> labelsOf(id) @@ c[id].labels]
          ELSE [labels |-> labelsOf(id)]]

\* step 5; step 6 follows when pruning is enabled and an earlier apply succeeded
Apply(k) ==
    /\ phase[k] = "Applying"
    /\ IF FaultAt(obj[k].fault, attempt[k].revision) = "apply"
       THEN Failure(k, "ApplyFailed") /\ UNCHANGED <<cluster, appliedOk>>
       ELSE /\ cluster' = Applied(cluster, attempt[k].docs)
            /\ appliedOk' = [appliedOk EXCEPT ![k] = @ \cup {attempt[k].revision}]
            /\ phase' = [phase EXCEPT ![k] = IF obj[k].prune /\ appliedOk[k] # {}
                                             THEN "Pruning" ELSE "HealthChecking"]
            /\ UNCHANGED <<status, outcome>>
    /\ UNCHANGED <<obj, source, attempt, lastPruned>>
    /\ UNCHANGED genVars

\* PruneMatches with the token compared only: any resource of another generation
PruneMatchesAnyOwner(kustomization, token, labels) ==
    ChecksumLabel \in DOMAIN labels /\ labels[ChecksumLabel] # token

\* step 6: the resource carries the ownership labels of the reconcilable and a
\* token label that differs from the current token
PruneMatches(kustomization, token, labels) ==
    /\ NameLabel \in DOMAIN labels /\ labels[NameLabel] = kustomization.name
    /\ NamespaceLabel \in DOMAIN labels /\ labels[NamespaceLabel] = kustomization.namespace
    /\ ChecksumLabel \in DOMAIN labels /\ labels[ChecksumLabel] # token

\* step 6: one deletion
Prune(k, id) ==
    /\ phase[k] = "Pruning"
    /\ id \in DOMAIN cluster
    /\ PruneMatches(obj[k], attempt[k].token, cluster[id].labels)
    /\ cluster' = [i \in DOMAIN cluster \ {id} |-> cluster[i]]
    /\ lastPruned' = [by |-> k, id |-> id, labels |-> cluster[id].labels,
                      token |-> attempt[k].token]
    /\ UNCHANGED <<obj, source, status, phase, attempt, outcome, appliedOk>>
    /\ UNCHANGED genVars

\* step 6: nothing is left to delete
PruneDone(k) ==
    /\ phase[k] = "Pruning"
    /\ \A id \in DOMAIN cluster : ~PruneMatches(obj[k], attempt[k].token, cluster[id].labels)
    /\ phase' = [phase EXCEPT ![k] = "HealthChecking"]
    /\ UNCHANGED <<obj, source, status, attempt, cluster, outcome, appliedOk, lastPruned>>
    /\ UNCHANGED genVars

\* the status after a successful attempt on revision r
Succeeded(st, r) ==
    [st EXCEPT !.ready = "True", !.reason = "ReconciliationSucceeded",
               !.lastAppliedRevision = r]

\* steps 7 and 8
HealthCheck(k) ==
    /\ phase[k] = "HealthChecking"
    /\ IF FaultAt(obj[k].fault, attempt[k].revision) = "health"
       THEN Failure(k, "HealthCheckFailed")
       ELSE /\ status' = [status EXCEPT ![k] = Succeeded(@, attempt[k].revision)]
            /\ phase' = [phase EXCEPT ![k] = "Pending"]
            /\ outcome' = [outcome EXCEPT ![k] = "ReconciliationSucceeded"]
    /\ UNCHANGED <<obj, source, attempt, cluster, appliedOk, lastPruned>>
    /\ UNCHANGED genVars

Reconcile(k) ==
    \/ DependencyRequeue(k)
    \/ ReconcileBegin(k)
    \/ Build(k)
    \/ Validate(k)
    \/ Apply(k)
    \/ \E id \in DOMAIN cluster : Prune(k, id)
    \/ PruneDone(k)
    \/ HealthCheck(k)

ReconNext == \E k \in Recs : SourcePublish(k) \/ Reconcile(k)

\* no generator runs on its own
GenIdle ==
    /\ kg = <<>> /\ fs = <<>> /\ fs0 = <<>> /\ pc = <<>> /\ ret = <<>>
    /\ built = <<>> /\ subst = <<>>

Reconcilable(name, prune, dependsOn, suspend, fault) ==
    [name |-> name, namespace |-> "flux-system", prune |-> prune, targetNamespace |-> "",
     images |-> <<>>, postBuild |-> TestSubstitute, dependsOn |-> dependsOn,
     suspend |-> suspend, fault |-> fault]

\* resources the cluster holds before the first attempt: one nobody owns, one
\* with the name label of common but another namespace label, one with the
\* name label only, and one an earlier generation of common left behind
ForeignResources ==
    { ("ConfigMap/foreign" :> [labels |-> ("team" :> "platform")]),
      ("ConfigMap/foreign" :>
          [labels |-> (NameLabel :> "common") @@ (NamespaceLabel :> "other")
                        @@ (ChecksumLabel :> StaleChecksum)]),
      ("ConfigMap/foreign" :>
          [labels |-> (NameLabel :> "common") @@ (ChecksumLabel :> StaleChecksum)]),
      ("ConfigMap/foreign" :> [labels |-> gcLabels("common", "flux-system", StaleChecksum)]) }

\* the fault profiles: no fault, or a fault of one kind at one revision
FaultProfiles(kinds) == {NoFault} \cup {[kind |-> f, at |-> r] : f \in kinds, r \in 1..MaxRev}

ReconInit(Prunes, Suspends, CommonFaults, BackendFaults, Clusters) ==
    \E p \in Prunes, dep \in {{}, {"common"}}, su \in Suspends, cf \in CommonFaults,
       bf \in BackendFaults, c \in Clusters :
        /\ obj = [k \in Recs |->
                    IF k = "common" THEN Reconcilable(k, p, {}, FALSE, cf)
                    ELSE Reconcilable(k, TRUE, dep, su, bf)]
        /\ source = [k \in Recs |-> [ready |-> FALSE, revision |-> 0]]
        /\ status = [k \in Recs |-> InitialStatus]
        /\ phase = [k \in Recs |-> "Pending"]
        /\ attempt = [k \in Recs |-> NoAttempt]
        /\ cluster = c
        /\ outcome = [k \in Recs |-> ""]
        /\ appliedOk = [k \in Recs |-> {}]
        /\ lastPruned = NoDeletion
        /\ GenIdle

InitRecon ==
    ReconInit(BOOLEAN, BOOLEAN, FaultProfiles({"build", "validate", "apply", "health"}),
              {NoFault, [kind |-> "apply", at |-> 1]}, ForeignResources)

SpecRecon == InitRecon /\ [][ReconNext]_vars

\* the controller requeues every reconcilable, and a worker takes every queued
\* request: no step of an attempt is postponed for ever
ReconFairness == \A k \in Recs : WF_vars(Reconcile(k))

InitReconFair ==
    ReconInit({TRUE}, BOOLEAN,
              FaultProfiles({"health"}) \cup {[kind |-> "apply", at |-> 1]}, {NoFault},
              {("ConfigMap/foreign" :> [labels |-> ("team" :> "platform")])})

SpecReconFair == InitReconFair /\ [][ReconNext]_vars /\ ReconFairness

-----------------------------------------------------------------------------
(* Properties of the reconciliation loop *)

Revisions == 1..MaxRev

ReadyAt(k, r) ==
    /\ status[k].ready = "True"
    /\ status[k].reason = "ReconciliationSucceeded"
    /\ status[k].lastAppliedRevision = r

AppliedRevisionSucceeded ==
    \A k \in Recs :
        status[k].lastAppliedRevision # 0 => status[k].lastAppliedRevision \in appliedOk[k]

AllDependenciesTrue(k) == \A dep \in obj[k].dependsOn : status[dep].ready = "True"

\* the attempts of k run: k is not suspended and its dependencies are Ready
AttemptsRun(k) == ~obj[k].suspend /\ AllDependenciesTrue(k)

\* C1 as stated: a reconcilable whose attempts run, whose source is ready at
\* revision r and stays there, and whose overlay builds, validates and applies
\* at r, is eventually Ready=True/ReconciliationSucceeded with
\* lastAppliedRevision r; and lastAppliedRevision is only ever a revision whose
\* apply succeeded.
C1_EventuallyApplied ==
    /\ \A k \in Recs : \A r \in Revisions :
          <>[](/\ source[k].ready /\ source[k].revision = r
               /\ FaultAt(obj[k].fault, r) \notin {"build", "validate", "apply"}
               /\ AttemptsRun(k))
             => <>ReadyAt(k, r)
    /\ []AppliedRevisionSucceeded

\* C1, amended: the same for a reconcilable whose health checks, too, pass at r.
C1_EventuallyAppliedWhenHealthy ==
    /\ \A k \in Recs : \A r \in Revisions :
          <>[](/\ source[k].ready /\ source[k].revision = r
               /\ FaultAt(obj[k].fault, r) \notin {"build", "validate", "apply", "health"}
               /\ AttemptsRun(k))
             => <>ReadyAt(k, r)
    /\ []AppliedRevisionSucceeded

\* a revision fails to apply, the next one is applied, and the status says so
C1_Witness ==
    \E k \in Recs :
        /\ ReadyAt(k, 2)
        /\ source[k] = [ready |-> TRUE, revision |-> 2]
        /\ FaultAt(obj[k].fault, 1) = "apply"
        /\ appliedOk[k] = {2}

OwnedBy(k, labels) ==
    /\ NameLabel \in DOMAIN labels /\ labels[NameLabel] = obj[k].name
    /\ NamespaceLabel \in DOMAIN labels /\ labels[NamespaceLabel] = obj[k].namespace

\* C2: whenever a resource leaves the cluster, a reconcilable is pruning whose
\* ownership labels (name and namespace) the resource carries and whose current
\* token differs from the resource's token label; so a resource without the
\* ownership labels, or with the current token, is never deleted, whatever the
\* other reconcilables apply and prune in between.
C2_PruneOnlyOwnedStale ==
    [][\A id \in DOMAIN cluster :
          id \notin DOMAIN cluster' =>
             \E k \in Recs :
                /\ phase[k] = "Pruning"
                /\ OwnedBy(k, cluster[id].labels)
                /\ ChecksumLabel \in DOMAIN cluster[id].labels
                /\ cluster[id].labels[ChecksumLabel] # attempt[k].token]_vars

\* the service account common no longer declares is deleted, by common, while
\* backend is in the middle of an attempt; what common does not own stays
C2_Witness ==
    /\ lastPruned.by = "common"
    /\ lastPruned.id = "ServiceAccount/test"
    /\ "ServiceAccount/test" \notin DOMAIN cluster
    /\ {"ConfigMap/foreign", "Namespace/test", "Deployment/podinfo"} \subseteq DOMAIN cluster
    /\ ~OwnedBy("common", cluster["ConfigMap/foreign"].labels)
    /\ phase["backend"] \in {"Applying", "Pruning"}
    /\ phase["common"] = "Pruning"

-----------------------------------------------------------------------------
(* Properties of WriteFile *)

kfilePath == <<DefaultKustomizationFileName>>

TokenComputed(g) == pc[g] \in {"labels", "update", "done"}

Count(s, x) == Cardinality({i \in 1..Len(s) : s[i] = x})

\* the configuration WriteFile reads at line 65, as it was before the call: the
\* one of the snapshot, or the synthesized one with no transformers and images
TransformersBefore(g) ==
    IF IsFile(fs0[g], kfilePath) THEN fs0[g][kfilePath].transformers ELSE <<>>

ImagesBefore(g) ==
    IF IsFile(fs0[g], kfilePath) THEN fs0[g][kfilePath].images ELSE <<>>

\* C4: with a non-empty variable map the post-build substitution replaces, over
\* the whole manifest text, every ${name} whose name is in the map by the mapped
\* value and every ${name:=default} whose name is not in the map by the default,
\* and leaves literal text alone; with {region: eu-central-1} the text
\* ${env:=dev} ${region} becomes dev eu-central-1.
C4_SubstitutionExpands ==
    \A g \in Gens :
        (TokenComputed(g) /\ kg[g].postBuild.set /\ DOMAIN kg[g].postBuild.substitute # {}) =>
            LET env == kg[g].postBuild.substitute
            IN /\ Len(subst[g]) = Len(built[g])
               /\ \A i \in 1..Len(built[g]) :
                    /\ Len(subst[g][i].body) = Len(built[g][i].body)
                    /\ \A j \in 1..Len(built[g][i].body) :
                         LET in == built[g][i].body[j]
                             out == subst[g][i].body[j]
                         IN /\ (in.t = "var" /\ in.name \in DOMAIN env) => out = Txt(env[in.name])
                            /\ (in.t = "def" /\ in.name \notin DOMAIN env) => out = Txt(in.arg)
                            /\ in.t = "txt" => out = in
                    /\ (env = ("region" :> "eu-central-1") /\ built[g][i].body = TestBody)
                          => subst[g][i].body = <<Txt("dev"), Txt("eu-central-1")>>

C4_Witness ==
    \E g \in Gens :
        /\ pc[g] = "done"
        /\ kg[g].postBuild.substitute = ("region" :> "eu-central-1")
        /\ \E i \in 1..Len(built[g]) :
              built[g][i].body = TestBody /\ subst[g][i].body = <<Txt("dev"), Txt("eu-central-1")>>

\* the fields of the object that make up its spec
SpecOf(k) == [prune |-> k.prune, targetNamespace |-> k.targetNamespace,
              images |-> k.images, postBuild |-> k.postBuild]

\* C5: two computations of the token on staging directories with identical
\* content, under identical specs, return the same token, whatever the
\* directory path and the name of the object.
C5_TokenDeterministic ==
    \A g, h \in Gens :
        (fs0[g] = fs0[h] /\ SpecOf(kg[g]) = SpecOf(kg[h])
            /\ TokenComputed(g) /\ TokenComputed(h)) => ret[g].checksum = ret[h].checksum

C5_Witness ==
    /\ pc["g1"] = "done" /\ pc["g2"] = "done"
    /\ kg["g1"].name # kg["g2"].name
    /\ DirPath("g1") # DirPath("g2")
    /\ kg["g1"].prune
    /\ ret["g1"].checksum = ret["g2"].checksum
    /\ ret["g1"].checksum # NoChecksum

\* C6: once generated, the label transformer carries the owner's name and
\* namespace labels; it carries the token label exactly when pruning is
\* enabled, and its value is then the token WriteFile returns.
C6_TransformerLabels ==
    \A g \in Gens :
        pc[g] \in {"update", "done"} =>
            /\ IsFile(fs[g], <<transformerFileName>>)
            /\ LET labels == fs[g][<<transformerFileName>>].labels
               IN /\ NameLabel \in DOMAIN labels /\ labels[NameLabel] = kg[g].name
                  /\ NamespaceLabel \in DOMAIN labels
                  /\ labels[NamespaceLabel] = kg[g].namespace
                  /\ (ChecksumLabel \in DOMAIN labels) <=> kg[g].prune
                  /\ kg[g].prune =>
                        /\ labels[ChecksumLabel] = ret[g].checksum
                        /\ ret[g].checksum # NoChecksum

C6_Witness ==
    \E g, h \in Gens :
        /\ pc[g] = "done" /\ kg[g].prune
        /\ fs[g][<<transformerFileName>>].labels[ChecksumLabel] = ret[g].checksum
        /\ kg[h].name = "web" /\ pc[h] = "done"

RootConfigurations(d) ==
    {i \in 1..Len(RecognizedKustomizationFileNames) :
        IsFile(d, <<RecognizedKustomizationFileNames[i]>>)}

\* C7: when the snapshot holds a build configuration at its root under any
\* recognized name, and the overlay builds, WriteFile returns the token without
\* error, the root holds the same single configuration file with the same
\* resource list, and the directory builds.
C7_ExistingConfigurationKept ==
    \A g \in Gens :
        (/\ HasKustomizationFile(fs0[g], <<>>)
         /\ pc[g] \in {"done", "err"}
         /\ ret[g].err \notin {"kustomize build failed", "post-build actions failed"}) =>
            /\ pc[g] = "done"
            /\ ret[g].checksum # NoChecksum
            /\ RootConfigurations(fs[g]) = RootConfigurations(fs0[g])
            /\ \A i \in RootConfigurations(fs0[g]) :
                  fs[g][<<RecognizedKustomizationFileNames[i]>>].resources
                      = fs0[g][<<RecognizedKustomizationFileNames[i]>>].resources
            /\ ~buildKustomization(fs[g]).err

\* the snapshot came with a generated transformer that carries a token and that
\* its own root configuration lists
StaleTokenListed(d) ==
    /\ IsFile(d, <<transformerFileName>>)
    /\ d[<<transformerFileName>>].kind = "labels"
    /\ ChecksumLabel \in DOMAIN d[<<transformerFileName>>].labels
    /\ \E i \in RootConfigurations(d) :
          Count(d[<<RecognizedKustomizationFileNames[i]>>].transformers,
                transformerFileName) > 0

TransformerUntouched(g) ==
    IF IsFile(fs0[g], <<transformerFileName>>)
    THEN IsFile(fs[g], <<transformerFileName>>)
            /\ fs[g][<<transformerFileName>>] = fs0[g][<<transformerFileName>>]
    ELSE ~IsFile(fs[g], <<transformerFileName>>)

C9_TransformerAppendIdempotent ==
    \A g \in Gens :
        pc[g] = "done" =>
            LET b == TransformersBefore(g)
                a == fs[g][kfilePath].transformers
            IN /\ Count(a, transformerFileName) >= 1
               /\ IsPrefix(b, a)
               /\ Count(b, transformerFileName) > 0 => a = b
               /\ Count(b, transformerFileName) = 0 => a = Append(b, transformerFileName)
               /\ addTransformer(a) = a
               /\ addTransformer(addTransformer(b)) = addTransformer(b)

C9_Witness ==
    \E g \in Gens :
        /\ pc[g] = "done"
        /\ TransformersBefore(g) = <<"extra-labels.yaml", transformerFileName>>
        /\ fs[g][kfilePath].transformers = TransformersBefore(g)

NamesOf(s) == {s[i].name : i \in 1..Len(s)}

newImageOf(o) == [name |-> o.name, newName |-> o.newName, newTag |-> o.newTag, digest |-> ""]

\* C10: after WriteFile every override has an entry in the image list: the first
\* entry of its name, in place, holds the values of the last override of that
\* name; entries whose name no override has are unchanged; names absent before
\* are appended once each, after the earlier entries.
C10_ImageOverrides ==
    \A g \in Gens :
        pc[g] = "done" =>
            LET b == ImagesBefore(g)
                o == kg[g].images
                a == fs[g][kfilePath].images
                first(s, n) == CHOOSE i \in 1..Len(s) :
                                  s[i].name = n /\ \A j \in 1..(i - 1) : s[j].name # n
                last(s, n) == CHOOSE i \in 1..Len(s) :
                                  s[i].name = n /\ \A j \in (i + 1)..Len(s) : s[j].name # n
            IN /\ Len(a) = Len(b) + Cardinality(NamesOf(o) \ NamesOf(b))
               /\ \A i \in 1..Len(b) :
                    /\ a[i].name = b[i].name
                    /\ (b[i].name \notin NamesOf(o) \/ i # first(b, b[i].name)) => a[i] = b[i]
               /\ \A n \in NamesOf(o) : a[first(a, n)] = newImageOf(o[last(o, n)])
               /\ \A i \in (Len(b) + 1)..Len(a) :
                    /\ a[i].name \in NamesOf(o) \ NamesOf(b)
                    /\ \A j \in (Len(b) + 1)..Len(a) : a[j].name = a[i].name => j = i

C10_Witness ==
    \E g \in Gens :
        /\ pc[g] = "done"
        /\ Len(ImagesBefore(g)) = 2
        /\ NamesOf(kg[g].images) = {"podinfo", "nginx"}
        /\ "podinfo" \in NamesOf(ImagesBefore(g))
        /\ Len(fs[g][kfilePath].images) = 3
        /\ fs[g][kfilePath].images[3].name = "nginx"

\* directory dir of tree d holds a build configuration file
HoldsConfiguration(d, dir) ==
    \E n \in Range(RecognizedKustomizationFileNames) : (dir \o <<n>>) \in DOMAIN d

\* p lies inside a sub-directory that holds its own build configuration
InsideConfigured(d, p) ==
    \E k \in 1..(Len(p) - 1) : HoldsConfiguration(d, SubSeq(p, 1, k))

IsYaml(p) == Ext(p[Len(p)]) \in {".yaml", ".yml"}

\* the .yaml/.yml files of d the scan reads that do not decode
ScannedFailing(d) ==
    {p \in DOMAIN d : ~InsideConfigured(d, p) /\ IsYaml(p) /\ ~Decodes(d[p])}

\* C11: when the snapshot has no build configuration at its root and a
\* .yaml/.yml file the scan reads does not decode, WriteFile stops with the
\* create error naming such a file (the first the walk meets), returns no
\* token, and leaves the staging directory as it was: no build configuration
\* file and no label transformer file is created.
C11_DecodeFailureAborts ==
    \A g \in Gens :
        (/\ ~HoldsConfiguration(fs0[g], <<>>)
         /\ ScannedFailing(fs0[g]) # {}
         /\ pc[g] # "start") =>
            /\ pc[g] = "err"
            /\ ret[g].err = "kustomize create failed"
            /\ ret[g].checksum = NoChecksum
            /\ \E p \in ScannedFailing(fs0[g]) :
                  /\ ret[g].at = DirPath(g) \o p
                  /\ \A q \in ScannedFailing(fs0[g]) : q = p \/ WalkBefore(p, q)
            /\ fs[g] = fs0[g]
            /\ ~HoldsConfiguration(fs[g], <<>>)
            /\ IsFile(fs[g], <<transformerFileName>>) = IsFile(fs0[g], <<transformerFileName>>)

\* two files of the snapshot do not decode, a third lies in a configured
\* directory and is not read; the error names the first, nothing is written
C11_Witness ==
    \E g \in Gens :
        /\ pc[g] = "err"
        /\ ScannedFailing(fs0[g]) = {<<"broken.yaml">>, <<"sub", "broken.yaml">>}
        /\ IsFile(fs0[g], <<"sub", "inner", "broken.yaml">>)
        /\ IsFile(fs0[g], <<"namespace.yaml">>)
        /\ ret[g].at = DirPath(g) \o <<"broken.yaml">>
        /\ ~IsFile(fs[g], kfilePath)
        /\ ~IsFile(fs[g], <<transformerFileName>>)

\* what the claim lists: the outermost sub-directories that hold a build
\* configuration and the .yaml/.yml files outside them, relative to the root
ExpectedResources(d) ==
    { <<".">> \o p :
        p \in {q \in Entries(d) :
                 /\ ~InsideConfigured(d, q)
                 /\ IF q \in DOMAIN d THEN IsYaml(q) ELSE HoldsConfiguration(d, q)} }

\* C12: the resource list of a synthesized configuration holds, relative to the
\* staging root and once each, the sub-directories that hold their own build
\* configuration and lie in no other such sub-directory, and the .yaml/.yml
\* files outside every such sub-directory; nothing else.
C12_ScannedResourceList ==
    \A g \in Gens :
        (/\ ~HoldsConfiguration(fs0[g], <<>>)
         /\ pc[g] # "start"
         /\ ret[g].err # "kustomize create failed") =>
            /\ IsFile(fs[g], kfilePath)
            /\ LET resources == fs[g][kfilePath].resources
               IN /\ Range(resources) = ExpectedResources(fs0[g])
                  /\ Len(resources) = Cardinality(ExpectedResources(fs0[g]))

\* a configured directory with a configured directory, a manifest and a file
\* that does not decode inside: one entry for it, next to the root's manifest
C12_Witness ==
    \E g \in Gens :
        /\ pc[g] = "done"
        /\ {<<"sub", "kustomization.yml">>, <<"sub", "deploy.yml">>, <<"sub", "broken.yaml">>,
            <<"sub", "inner", "Kustomization">>, <<"sub", "inner", "configmap.yaml">>,
            <<"namespace.yaml">>, <<"notes.txt">>} \subseteq DOMAIN fs0[g]
        /\ ~HoldsConfiguration(fs0[g], <<>>)
        /\ fs[g][kfilePath].resources = << <<".", "namespace.yaml">>, <<".", "sub">> >>

====
